---- MODULE Spec2Model ----
(***************************************************************************)
(* Model of the broker-advice extraction pipeline of src/app.py:           *)
(*   extract_text_from_pdf (text normalisation), extract_parties,          *)
(*   try_parse_date, capture_field, normalize_common_fields and            *)
(*   extract_fields.                                                       *)
(*                                                                         *)
(* A text is a sequence of characters; a character is a one-character      *)
(* string, except for the non-ASCII code points the normaliser rewrites,   *)
(* which are named (NBSP, FWCOLON, SMALLCOLON, ENDASH, EMDASH, MINUS).     *)
(* Regular expressions are translated position by position: a match is     *)
(* the (start, end) the backtracking engine of Python's re would return.   *)
(***************************************************************************)
EXTENDS Integers, Sequences, FiniteSets, TLC

VARIABLES raw, text, parties, date, captured, fields, pc

vars == <<raw, text, parties, date, captured, fields, pc>>

----------------------------------------------------------------------------
(* Characters and character classes                                        *)

NBSP == "<nbsp>"
FWCOLON == "<fullwidth-colon>"
SMALLCOLON == "<small-colon>"
ENDASH == "<en-dash>"
EMDASH == "<em-dash>"
MINUS == "<minus-sign>"

LowerSeq ==
  <<"a","b","c","d","e","f","g","h","i","j","k","l","m",
    "n","o","p","q","r","s","t","u","v","w","x","y","z">>

UpperSeq ==
  <<"A","B","C","D","E","F","G","H","I","J","K","L","M",
    "N","O","P","Q","R","S","T","U","V","W","X","Y","Z">>

LowerSet == {LowerSeq[i] : i \in 1..26}
UpperSet == {UpperSeq[i] : i \in 1..26}
AlphaSet == LowerSet \cup UpperSet
DigitSet == {"0","1","2","3","4","5","6","7","8","9"}

\* \w of a str pattern: letters, digits and the underscore
WordSet == AlphaSet \cup DigitSet \cup {"_"}

\* the line boundaries of str.splitlines that the model's alphabet holds
LineSeps == {"\n", "\r", "\f"}

\* \s of a str pattern, and what str.strip()/rstrip() remove
SpaceSet == {" ", "\t", "\n", "\r", "\f", NBSP}

LowerOf == [c \in UpperSet |-> LowerSeq[CHOOSE i \in 1..26 : UpperSeq[i] = c]]

\* str.lower() of one character; re.IGNORECASE compares the folded characters
Fold(c) == IF c \in UpperSet THEN LowerOf[c] ELSE c

\* the characters of a string literal
Chars(str) == [i \in 1..Len(str) |-> SubSeq(str, i, i)]

IsDigit(c) == c \in DigitSet
IsAlpha(c) == c \in AlphaSet
IsSpace(c) == c \in SpaceSet

----------------------------------------------------------------------------
(* Sequence helpers                                                        *)

Max(a, b) == IF a >= b THEN a ELSE b
Min(a, b) == IF a <= b THEN a ELSE b

MinOf(S) == CHOOSE x \in S : \A y \in S : x <= y
MaxOf(S) == CHOOSE x \in S : \A y \in S : x >= y

\* concatenation of the pieces f[lo], ..., f[hi]
RECURSIVE Flatten(_, _, _)
Flatten(f, lo, hi) ==
  IF lo > hi THEN << >>
  ELSE IF lo = hi THEN f[lo]
  ELSE LET mid == (lo + hi) \div 2
       IN Flatten(f, lo, mid) \o Flatten(f, mid + 1, hi)

\* number of consecutive characters of `set` in s ending at position i
RECURSIVE RunBack(_, _, _)
RunBack(s, i, set) ==
  IF i < 1 \/ s[i] \notin set THEN 0 ELSE 1 + RunBack(s, i - 1, set)

\* number of consecutive characters of `set` in s starting at position i
RECURSIVE RunFwd(_, _, _)
RunFwd(s, i, set) ==
  IF i > Len(s) \/ s[i] \notin set THEN 0 ELSE 1 + RunFwd(s, i + 1, set)

\* s[a..b], empty when a > b (a Python slice)
Slice(s, a, b) == IF a > b THEN << >> ELSE SubSeq(s, a, b)

\* s starts at position i with the literal lit (case-sensitive)
HasAt(s, i, lit) ==
  /\ i >= 1
  /\ i + Len(lit) - 1 <= Len(s)
  /\ \A k \in 1..Len(lit) : s[i + k - 1] = lit[k]

\* s starts at position i with the literal lit under re.IGNORECASE
HasAtI(s, i, lit) ==
  /\ i >= 1
  /\ i + Len(lit) - 1 <= Len(s)
  /\ \A k \in 1..Len(lit) : Fold(s[i + k - 1]) = Fold(lit[k])

\* \b between positions i-1 and i (1-based; i = Len(s)+1 is the end)
WordBoundary(s, i) ==
  LET before == i > 1 /\ s[i - 1] \in WordSet
      after == i <= Len(s) /\ s[i] \in WordSet
  IN before # after

\* str.strip(chars)
StripChars(s, set) ==
  LET keep == {i \in 1..Len(s) : s[i] \notin set}
  IN IF keep = {} THEN << >> ELSE SubSeq(s, MinOf(keep), MaxOf(keep))

\* str.strip()
Strip(s) == StripChars(s, SpaceSet)

----------------------------------------------------------------------------
(* extract_text_from_pdf: the normalisation of the decoded text            *)

\* text.replace("\xa0", " ")
ReplaceNbsp(s) == [i \in 1..Len(s) |-> IF s[i] = NBSP THEN " " ELSE s[i]]

\* re.sub(r"[:colon variants]", ":", text)
NormalizeColon(s) ==
  [i \in 1..Len(s) |-> IF s[i] \in {FWCOLON, SMALLCOLON} THEN ":" ELSE s[i]]

\* re.sub(r"[dash variants]", "-", text)
NormalizeDash(s) ==
  [i \in 1..Len(s) |-> IF s[i] \in {ENDASH, EMDASH, MINUS} THEN "-" ELSE s[i]]

\* text.replace("**", "\n"): left to right, non-overlapping, so the pairs of
\* a run of asterisks are taken from the run's start
ReplaceBold(s) ==
  LET piece(i) ==
        IF s[i] # "*" THEN <<s[i]>>
        ELSE LET k == RunBack(s, i - 1, {"*"})      \* asterisks before i
             IN IF k % 2 = 1 THEN << >>               \* second of a pair
                ELSE IF i < Len(s) /\ s[i + 1] = "*" THEN <<"\n">>
                ELSE <<"*">>
  IN Flatten([i \in 1..Len(s) |-> piece(i)], 1, Len(s))

\* re.sub(r"[ \t]+", " ", text)
CollapseBlanks(s) ==
  LET blank == {" ", "\t"}
      piece(i) ==
        IF s[i] \notin blank THEN <<s[i]>>
        ELSE IF i > 1 /\ s[i - 1] \in blank THEN << >>
        ELSE <<" ">>
  IN Flatten([i \in 1..Len(s) |-> piece(i)], 1, Len(s))

\* re.sub(r"\s*\n\s*", "\n", text): a maximal run of whitespace that holds a
\* newline is one match; a run without a newline is not matched
CollapseNewlines(s) ==
  LET piece(i) ==
        IF s[i] \notin SpaceSet THEN <<s[i]>>
        ELSE LET a == i - RunBack(s, i - 1, SpaceSet)
                 b == i + RunFwd(s, i + 1, SpaceSet)
             IN IF \E j \in a..b : s[j] = "\n"
                THEN (IF i = a THEN <<"\n">> ELSE << >>)
                ELSE <<s[i]>>
  IN Flatten([i \in 1..Len(s) |-> piece(i)], 1, Len(s))

\* position i holds the "\n" of a "\r\n" pair, one line boundary
IsCrLfTail(s, i) == i > 1 /\ s[i] = "\n" /\ s[i - 1] = "\r"

\* position i ends the text's last line: str.splitlines gives no empty
\* line after a final line boundary
IsFinalSep(s, i) ==
  /\ s[i] \in LineSeps
  /\ \/ i = Len(s)
     \/ i = Len(s) - 1 /\ s[i] = "\r" /\ s[Len(s)] = "\n"

\* "\n".join(ln.rstrip() for ln in text.splitlines())
RstripLines(s) ==
  LET inline == SpaceSet \ LineSeps
      piece(i) ==
        IF s[i] \in LineSeps
        THEN (IF IsCrLfTail(s, i) \/ IsFinalSep(s, i) THEN << >> ELSE <<"\n">>)
        ELSE IF s[i] \in inline
        THEN LET e == i + RunFwd(s, i + 1, inline)   \* end of the blank run
             IN IF e = Len(s) \/ s[e + 1] \in LineSeps THEN << >> ELSE <<s[i]>>
        ELSE <<s[i]>>
  IN Flatten([i \in 1..Len(s) |-> piece(i)], 1, Len(s))

NormalizeText(s) ==
  RstripLines(CollapseNewlines(CollapseBlanks(
    ReplaceBold(NormalizeDash(NormalizeColon(ReplaceNbsp(s)))))))

----------------------------------------------------------------------------
(* extract_parties                                                         *)

_ADDRESS_WORDS ==
  {Chars("PO"), Chars("BOX"), Chars("GPO"),
   Chars("LOCKED"), Chars("BAG"),
   Chars("CONTACT"), Chars("PHONE"),
   Chars("FAX"), Chars("EMAIL"), Chars("NSW"),
   Chars("VIC"), Chars("QLD"), Chars("SA"), Chars("WA"),
   Chars("TAS"), Chars("ACT"), Chars("NT"),
   Chars("AUSTRALIA"),
   Chars("MELBOURNE"), Chars("SYDNEY"),
   Chars("BRISBANE"), Chars("ADELAIDE"),
   Chars("PERTH"), Chars("HOBART"),
   Chars("CANBERRA"), Chars("RHODES"),
   Chars("TOOWOOMBA")}

\* the one-word alternatives of _SEPARATORS, in the pattern's order;
\* PO\s+BOX is matched by SepEndAt itself
SeparatorWords ==
  <<Chars("LOCKED"), Chars("GPO"), Chars("ABN"),
    Chars("CONTACT"), Chars("PHONE"),
    Chars("FAX"), Chars("EMAIL")>>

\* the literal words of the ABN pattern and of PO\s+BOX
AbnWord == Chars("ABN")
PoWord == Chars("PO")
BoxWord == Chars("BOX")

\* the number of digits of an identifier: {11} of the ABN pattern
AbnDigits == 11

\* the offset below which an occurrence is skipped as letterhead
MinOffset == 300

\* the length of the window inspected before an occurrence
Lookback == 220

\* (?:\d\s*){k} from position p: the position after the k-th digit
\* (the whitespace after the last digit not counted), 0 when it fails
RECURSIVE DigitsWalk(_, _, _)
DigitsWalk(s, p, k) ==
  IF p > Len(s) \/ ~IsDigit(s[p]) THEN 0
  ELSE IF k = 1 THEN p + 1
  ELSE DigitsWalk(s, p + 1 + RunFwd(s, p + 1, SpaceSet), k - 1)

\* the match of \bABN\s*:\s*((?:\d\s*){11})\b (IGNORECASE) that starts at
\* position i: [start, gstart, gend) with the group s[gstart..gend-1];
\* start = 0 when the pattern does not match at i.  The last \s* is greedy
\* and gives back whitespace until \b holds.
AbnMatchAt(s, i) ==
  LET none == [start |-> 0, gstart |-> 0, gend |-> 0]
      colon == i + 3 + RunFwd(s, i + 3, SpaceSet)
      g == colon + 1 + RunFwd(s, colon + 1, SpaceSet)
      d == DigitsWalk(s, g, AbnDigits)
      r == RunFwd(s, d, SpaceSet)
      ends == {k \in 0..r : WordBoundary(s, d + k)}
  IN IF ~(WordBoundary(s, i) /\ HasAtI(s, i, AbnWord)) THEN none
     ELSE IF colon > Len(s) \/ s[colon] # ":" THEN none
     ELSE IF d = 0 \/ ends = {} THEN none
     ELSE [start |-> i, gstart |-> g, gend |-> d + MaxOf(ends)]

\* the elements of a finite set of records, by increasing start
RECURSIVE ByStart(_)
ByStart(S) ==
  IF S = {} THEN << >>
  ELSE LET m == CHOOSE x \in S : \A y \in S : x.start <= y.start
       IN <<m>> \o ByStart(S \ {m})

\* list(re.finditer(ABN pattern, text)): a match holds no second "ABN", so
\* the matches never overlap and every matching position is reported
abn_iter(s) ==
  ByStart({AbnMatchAt(s, i) : i \in {j \in 1..Len(s) : AbnMatchAt(s, j).start # 0}})

\* m.group(1) taken as it stands, its whitespace kept
KeepGroup(g) == g

\* re.sub(r"\D", "", m.group(1))
StripNonDigits(g) == SelectSeq(g, IsDigit)

AbnOf(s, m) == StripNonDigits(Slice(s, m.gstart, m.gend - 1))

\* the end (exclusive) of the match of _SEPARATORS that starts at position
\* i of w, 0 when there is none: one of the alternatives, then \b
SepEndAt(w, i) ==
  LET words == {k \in 1..Len(SeparatorWords) : HasAtI(w, i, SeparatorWords[k])}
      gap == RunFwd(w, i + 2, SpaceSet)
      e == IF words # {} THEN i + Len(SeparatorWords[MinOf(words)])
           ELSE IF /\ HasAtI(w, i, PoWord)
                   /\ gap >= 1
                   /\ HasAtI(w, i + 2 + gap, BoxWord)
                THEN i + 2 + gap + 3
           ELSE 0
  IN IF e # 0 /\ WordBoundary(w, e) THEN e ELSE 0

\* the end of the last match that re.finditer(_SEPARATORS, w) reports when
\* it resumes at pos (matches are taken left to right and do not overlap);
\* `last` when it reports none
RECURSIVE LastSepEnd(_, _, _, _)
LastSepEnd(w, M, pos, last) ==
  LET C == {i \in M : i >= pos}
  IN IF C = {} THEN last
     ELSE LastSepEnd(w, M, SepEndAt(w, MinOf(C)), SepEndAt(w, MinOf(C)))

\* window[sep_match[-1].end():], or the window when no separator matches
\* (LastSepEnd is then 0 and the slice starts at the window's start)
TrimToLastSeparator(w) ==
  Slice(w, Max(1, LastSepEnd(w, {i \in 1..Len(w) : SepEndAt(w, i) # 0}, 1, 0)), Len(w))

\* " ".join(tokens)
RECURSIVE JoinSpace(_)
JoinSpace(toks) ==
  IF toks = << >> THEN << >>
  ELSE IF Len(toks) = 1 THEN toks[1]
  ELSE toks[1] \o <<" ">> \o JoinSpace(Tail(toks))

\* tok.isupper() of an alphabetic token
IsUpperToken(tok) == \A k \in 1..Len(tok) : tok[k] \in UpperSet

\* the loop of _extract_company_before_window over reversed(tokens): pos is
\* the position the walk has reached from the right, acc the deque
RECURSIVE CollectBack(_, _, _, _)
CollectBack(w, pos, started, acc) ==
  IF pos < 1 THEN acc
  ELSE IF ~IsAlpha(w[pos]) THEN CollectBack(w, pos - 1, started, acc)
  ELSE LET n == RunBack(w, pos, AlphaSet)
           tok == SubSeq(w, pos - n + 1, pos)
       IN IF ~IsUpperToken(tok) \/ tok \in _ADDRESS_WORDS
          THEN (IF started THEN acc ELSE CollectBack(w, pos - n, FALSE, acc))
          ELSE CollectBack(w, pos - n, TRUE, <<tok>> \o acc)

_extract_company_before_window(w) ==
  Strip(JoinSpace(CollectBack(w, Len(w), FALSE, << >>)))

\* re.sub(r"\s{2,}", " ", s)
CollapseSpaceRuns(s) ==
  LET piece(i) ==
        IF s[i] \notin SpaceSet THEN <<s[i]>>
        ELSE LET a == i - RunBack(s, i - 1, SpaceSet)
                 b == i + RunFwd(s, i + 1, SpaceSet)
             IN IF b = a THEN <<s[i]>>
                ELSE IF i = a THEN <<" ">> ELSE << >>
  IN Flatten([i \in 1..Len(s) |-> piece(i)], 1, Len(s))

\* len(s.split())
TokenCount(s) ==
  Cardinality({i \in 1..Len(s) :
                 s[i] \notin SpaceSet /\ (i = 1 \/ s[i - 1] \in SpaceSet)})

\* the characters of [A-Z&'./()\-\s] under IGNORECASE
LooseClass == AlphaSet \cup SpaceSet \cup {"&", "'", ".", "/", "(", ")", "-"}

\* the group of the last match of simple_pat in w, empty when simple_pat
\* does not match: a letter, at least three characters of LooseClass, then
\* whitespace that ends where a separator starts.  extract_parties applies
\* it to a window already cut after its last separator, which holds none.
LooseName(w) ==
  LET seps == {p \in 2..Len(w) : SepEndAt(w, p) # 0 /\ w[p - 1] \in SpaceSet}
      stop(p) == p - 1 - RunBack(w, p - 1, SpaceSet)   \* last group character
      first(p) == stop(p) - RunBack(w, stop(p), LooseClass) + 1
      starts(p) == {a \in first(p)..stop(p) : IsAlpha(w[a]) /\ stop(p) - a >= 3}
      hits == {p \in seps : starts(p) # {}}
  IN IF hits = {} THEN << >>
     ELSE LET p == MaxOf(hits)
          IN Strip(CollapseSpaceRuns(SubSeq(w, MinOf(starts(p)), stop(p))))

\* lines 130-141: the tight name of the trimmed window, else the loose one
TightOrLoose(trimmed, tight) ==
  IF tight # << >> THEN tight ELSE LooseName(trimmed)

\* lines 130-143 on the window cut after its last separator
CleanName(trimmed) ==
  StripChars(
    CollapseSpaceRuns(TightOrLoose(trimmed, _extract_company_before_window(trimmed))),
    {" ", ",", ".", "-"})

\* the name resolved for the occurrence m (lines 120-143), possibly empty
NameOf(s, m) ==
  CleanName(TrimToLastSeparator(Slice(s, Max(1, m.start - Lookback), m.start - 1)))

\* the loop of lines 112-147: the (name, abn, start_idx) of the occurrences
\* at or after MinOffset whose name has at least two tokens
\* one pass of the loop for the occurrence m and the name resolved for it:
\* what it appends to parties
Candidate(s, m, name) ==
  IF m.start - 1 < MinOffset THEN << >>
  ELSE IF name # << >> /\ TokenCount(name) >= 2
  THEN <<[name |-> name, abn |-> AbnOf(s, m), idx |-> m.start - 1]>>
  ELSE << >>

RECURSIVE Candidates(_, _)
Candidates(s, ms) ==
  IF ms = << >> THEN << >>
  ELSE Candidate(s, Head(ms), NameOf(s, Head(ms))) \o Candidates(s, Tail(ms))

\* lines 149-155: keep the first candidate of every identifier
RECURSIVE Dedup(_, _)
Dedup(cs, seen) ==
  IF cs = << >> THEN << >>
  ELSE IF Head(cs).abn \in seen THEN Dedup(Tail(cs), seen)
  ELSE <<Head(cs)>> \o Dedup(Tail(cs), seen \cup {Head(cs).abn})

\* sorted(parties, key=lambda t: t[2]): a stable insertion sort
RECURSIVE SortByIdx(_)
SortByIdx(ps) ==
  IF ps = << >> THEN << >>
  ELSE LET m == CHOOSE i \in 1..Len(ps) :
                  /\ \A j \in 1..Len(ps) : ps[i].idx <= ps[j].idx
                  /\ \A j \in 1..(i - 1) : ps[j].idx > ps[i].idx
       IN <<ps[m]>> \o SortByIdx(SubSeq(ps, 1, m - 1) \o SubSeq(ps, m + 1, Len(ps)))

Pair(n, a) == <<n, a>>

\* the first and the second party by document position
BuyerAndSecond(ps) ==
  LET parties_sorted == SortByIdx(ps)
  IN <<Pair(parties_sorted[1].name, parties_sorted[1].abn),
       Pair(parties_sorted[2].name, parties_sorted[2].abn)>>

\* lines 157-162: the first and the last party by document position
BuyerAndSeller(ps) ==
  LET parties_sorted == SortByIdx(ps)
      first == parties_sorted[1]
      last == parties_sorted[Len(parties_sorted)]
  IN <<Pair(first.name, first.abn), Pair(last.name, last.abn)>>

\* the identifiers of the first and the second occurrence
FallbackFirstTwo(s, ms) ==
  <<Pair(<< >>, AbnOf(s, ms[1])), Pair(<< >>, AbnOf(s, ms[2]))>>

\* lines 164-167: the identifiers of the first and the last occurrence
Fallback(s, ms) ==
  <<Pair(<< >>, AbnOf(s, ms[1])), Pair(<< >>, AbnOf(s, ms[Len(ms)]))>>

\* lines 157-170: what is returned for the occurrences ms and the
\* deduplicated candidates ps
Resolve(s, ms, ps) ==
  IF Len(ps) >= 2 THEN BuyerAndSeller(ps)
  ELSE IF Len(ms) >= 2 /\ ps = << >> THEN Fallback(s, ms)
  ELSE [i \in 1..Len(ps) |-> Pair(ps[i].name, ps[i].abn)]

\* lines 112-170 on the occurrences ms
PartiesOf(s, ms) == Resolve(s, ms, Dedup(Candidates(s, ms), {}))

extract_parties(s) == PartiesOf(s, abn_iter(s))

----------------------------------------------------------------------------
(* capture_field                                                           *)

\* \s* inside a label pattern
WS == "<\\s*>"

\* the labels as patterns: a sequence of literal characters (compared
\* under IGNORECASE) and WS.  An optional group is written as the two
\* alternatives a greedy "?" tries, the longer first.
BUYER_LABELS ==
  <<Chars("Buyer"),
    Chars("Purchaser"),
    Chars("Buyer") \o <<WS>> \o Chars("(Principal)"),
    Chars("Principal") \o <<WS>> \o Chars("(Buyer)")>>

SELLER_LABELS ==
  <<Chars("Seller"),
    Chars("Vendor"),
    Chars("Seller") \o <<WS>> \o Chars("(Counterparty)"),
    Chars("Counterparty") \o <<WS>> \o Chars("(Seller)")>>

FIELD_LABELS ==
  ("Commodity" :>
    <<Chars("Commodity")>>) @@
  ("Quality" :>
    <<Chars("Quality"),
      Chars("Specification"),
      Chars("Spec")>>) @@
  ("Quantity" :>
    <<Chars("Quantity"),
      Chars("Qty")>>) @@
  ("Price" :>
    <<Chars("Price"),
      Chars("Price Basis"),
      Chars("Contract Price")>>) @@
  ("Delivery" :>
    <<Chars("Delivery"),
      Chars("Delivery Terms"),
      Chars("Delivery Period")>>) @@
  ("Payment" :>
    <<Chars("Payment"),
      Chars("Payment Terms")>>) @@
  ("Insurance" :>
    <<Chars("Insurance")>>) @@
  ("Freight" :>
    <<Chars("Freight")>>) @@
  ("Storage" :>
    <<Chars("Storage")>>) @@
  ("Weights" :>
    <<Chars("Weights"),
      Chars("Weight Basis"),
      Chars("Weights") \o <<WS>> \o Chars("&") \o <<WS>> \o Chars("Measures"),
      Chars("Weight") \o <<WS>> \o Chars("&") \o <<WS>> \o Chars("Measures")>>) @@
  ("Special Conditions" :>
    <<Chars("Special Conditions"),
      Chars("Specials"),
      Chars("Notes")>>) @@
  ("Brokerage" :>
    <<Chars("Brokerage"),
      Chars("Commission")>>) @@
  ("Rules" :>
    <<Chars("Rules"),
      Chars("Contract Rules"),
      Chars("Terms & Conditions")>>)

\* the end (exclusive) of the match of the label pattern pat[k..] at
\* position p of s, 0 when it does not match; a WS is always followed by
\* a character that is no whitespace, so the greedy \s* never gives back
RECURSIVE MatchLabel(_, _, _, _)
MatchLabel(s, p, pat, k) ==
  IF k > Len(pat) THEN p
  ELSE IF pat[k] = WS THEN MatchLabel(s, p + RunFwd(s, p, SpaceSet), pat, k + 1)
  ELSE IF p <= Len(s) /\ Fold(s[p]) = Fold(pat[k]) THEN MatchLabel(s, p + 1, pat, k + 1)
  ELSE 0

\* the position after the colon of  pat \s* :  matched at position i, or 0
LabelColonEnd(s, i, pat) ==
  LET e == MatchLabel(s, i, pat, 1)
      c == e + RunFwd(s, e, SpaceSet)
  IN IF e # 0 /\ c <= Len(s) /\ s[c] = ":" THEN c + 1 ELSE 0

\* compile_next_label_pattern: the party labels, then every field's labels
NextLabels ==
  {BUYER_LABELS[k] : k \in DOMAIN BUYER_LABELS}
    \cup {SELLER_LABELS[k] : k \in DOMAIN SELLER_LABELS}
    \cup UNION {{FIELD_LABELS[f][k] : k \in DOMAIN FIELD_LABELS[f]} : f \in DOMAIN FIELD_LABELS}

\* next_label_pat matches at position e of s
NextLabelAt(s, e) == \E pat \in NextLabels : LabelColonEnd(s, e, pat) # 0

\* $ without MULTILINE: the end of s, or just before a final newline
AtEnd(s, e) == e = Len(s) + 1 \/ (e = Len(s) /\ s[e] = "\n")

NoMatch == [found |-> FALSE, from |-> 0, to |-> 0]

\* where group(1) starts when the colon ends before position c: \s* is
\* greedy and gives back one character when nothing is left for (.+?);
\* 0 when (.+?) finds no character at all
GroupStart(s, c) ==
  LET top == c + RunFwd(s, c, SpaceSet)
  IN IF top <= Len(s) THEN top ELSE IF top > c THEN top - 1 ELSE 0

\* the folded first characters of the labels: where no label can start,
\* next_label_pat is not tried
LabelInitials == {Fold(pat[1]) : pat \in NextLabels}

\* where group(1) ends (exclusive): (.+?) takes one character and grows
\* until the lookahead (?=next_label_pat|$) holds
GroupEnd(s, from) ==
  MinOf({e \in (from + 1)..(Len(s) + 1) :
           \/ AtEnd(s, e)
           \/ (Fold(s[e]) \in LabelInitials /\ NextLabelAt(s, e))})

\* the match of capture_field's pattern that starts at position i, by
\* the first of the field's labels that lets the whole pattern match:
\* group(1) is s[from..to-1]
FieldMatchAt(s, i, canonical) ==
  LET variants == FIELD_LABELS[canonical]
      start(k) == LET c == LabelColonEnd(s, i, variants[k])
                  IN IF c = 0 THEN 0 ELSE GroupStart(s, c)
      ok == {k \in DOMAIN variants : start(k) # 0}
      from == start(MinOf(ok))
  IN IF ~WordBoundary(s, i) \/ ok = {} THEN NoMatch
     ELSE [found |-> TRUE, from |-> from, to |-> GroupEnd(s, from)]

\* the leftmost of the matches ms[i] that start at the positions i
Leftmost(ms) ==
  LET hits == {i \in DOMAIN ms : ms[i].found}
  IN IF hits = {} THEN NoMatch ELSE ms[MinOf(hits)]

\* pat.search(text): the match at the leftmost position that has one
FieldMatch(s, canonical) ==
  Leftmost([i \in 1..Len(s) |-> FieldMatchAt(s, i, canonical)])

\* line 245: m.group(1).strip() if m else ""
GroupOf(s, m) == IF m.found THEN Strip(Slice(s, m.from, m.to - 1)) ELSE << >>

capture_field(s, canonical) == GroupOf(s, FieldMatch(s, canonical))

----------------------------------------------------------------------------
(* try_parse_date                                                          *)

DigitSeq == <<"0","1","2","3","4","5","6","7","8","9">>

DigitValue(c) == (CHOOSE i \in 1..10 : DigitSeq[i] = c) - 1

\* int() of a sequence of digits
RECURSIVE NumberOf(_)
NumberOf(ds) ==
  IF ds = << >> THEN 0
  ELSE 10 * NumberOf(SubSeq(ds, 1, Len(ds) - 1)) + DigitValue(ds[Len(ds)])

\* the decimal digits of n, without padding
RECURSIVE DigitsOf(_)
DigitsOf(n) ==
  IF n < 10 THEN <<DigitSeq[n + 1]>>
  ELSE DigitsOf(n \div 10) \o <<DigitSeq[(n % 10) + 1]>>

\* %d and %m of strftime: two digits
TwoDigits(n) == IF n < 10 THEN <<"0">> \o DigitsOf(n) ELSE DigitsOf(n)

MonthNames ==
  <<Chars("january"),
    Chars("february"),
    Chars("march"),
    Chars("april"),
    Chars("may"),
    Chars("june"),
    Chars("july"),
    Chars("august"),
    Chars("september"),
    Chars("october"),
    Chars("november"),
    Chars("december")>>

FoldAll(s) == [i \in 1..Len(s) |-> Fold(s[i])]

\* the month a token names under %B (full = TRUE) or %b, 0 when none
MonthOf(tok, full) ==
  LET name(m) == IF full THEN MonthNames[m] ELSE SubSeq(MonthNames[m], 1, 3)
      hits == {m \in 1..12 : FoldAll(tok) = name(m)}
  IN IF hits = {} THEN 0 ELSE MinOf(hits)

IsLeap(y) == (y % 4 = 0 /\ y % 100 # 0) \/ y % 400 = 0

DaysIn(m, y) ==
  IF m = 2 THEN (IF IsLeap(y) THEN 29 ELSE 28)
  ELSE IF m \in {4, 6, 9, 11} THEN 30 ELSE 31

NoDate == [ok |-> FALSE, d |-> 0, m |-> 0, y |-> 0]

\* datetime(y, m, d), a ValueError giving NoDate
MakeDate(d, m, y) ==
  IF y >= 1 /\ m \in 1..12 /\ d >= 1 /\ d <= DaysIn(m, y)
  THEN [ok |-> TRUE, d |-> d, m |-> m, y |-> y]
  ELSE NoDate

\* a %d or %m directive at position p: one or two digits
NumLen(s, p) == Min(RunFwd(s, p, DigitSet), 2)

\* %y: 69-99 are 19xx, 00-68 are 20xx
YearOf(ds) ==
  IF Len(ds) = 4 THEN NumberOf(ds)
  ELSE IF NumberOf(ds) >= 69 THEN 1900 + NumberOf(ds) ELSE 2000 + NumberOf(ds)

\* strptime(s, "%d<sep>%m<sep>%Y") (ylen = 4) or "...%y" (ylen = 2): the
\* whole of s must be converted
ParseDMY(s, sep, ylen) ==
  LET l1 == NumLen(s, 1)
      p2 == l1 + 2
      l2 == NumLen(s, p2)
      p3 == p2 + l2 + 1
  IN IF /\ l1 >= 1 /\ l2 >= 1
        /\ p3 + ylen - 1 = Len(s)
        /\ s[l1 + 1] = sep /\ s[p2 + l2] = sep
        /\ \A k \in p3..Len(s) : IsDigit(s[k])
     THEN MakeDate(NumberOf(SubSeq(s, 1, l1)), NumberOf(SubSeq(s, p2, p2 + l2 - 1)),
                   YearOf(SubSeq(s, p3, Len(s))))
     ELSE NoDate

\* strptime(s, "%d %b %Y") or "%d %B %Y": a blank of the format is \s+
ParseDMonY(s, full) ==
  LET l1 == NumLen(s, 1)
      g1 == RunFwd(s, l1 + 1, SpaceSet)
      pm == l1 + 1 + g1
      lm == RunFwd(s, pm, AlphaSet)
      g2 == RunFwd(s, pm + lm, SpaceSet)
      py == pm + lm + g2
  IN IF /\ l1 >= 1 /\ g1 >= 1 /\ lm >= 1 /\ g2 >= 1
        /\ py + 3 = Len(s)
        /\ \A k \in py..Len(s) : IsDigit(s[k])
        /\ MonthOf(SubSeq(s, pm, pm + lm - 1), full) # 0
     THEN MakeDate(NumberOf(SubSeq(s, 1, l1)), MonthOf(SubSeq(s, pm, pm + lm - 1), full),
                   NumberOf(SubSeq(s, py, Len(s))))
     ELSE NoDate

\* strptime(s, "%b %d, %Y") or "%B %d, %Y"
ParseMonDY(s, full) ==
  LET lm == RunFwd(s, 1, AlphaSet)
      g1 == RunFwd(s, lm + 1, SpaceSet)
      pd == lm + 1 + g1
      ld == NumLen(s, pd)
      pc2 == pd + ld                                \* the comma
      g2 == RunFwd(s, pc2 + 1, SpaceSet)
      py == pc2 + 1 + g2
  IN IF /\ lm >= 1 /\ g1 >= 1 /\ ld >= 1 /\ g2 >= 1
        /\ pc2 <= Len(s) /\ s[pc2] = ","
        /\ py + 3 = Len(s)
        /\ \A k \in py..Len(s) : IsDigit(s[k])
        /\ MonthOf(SubSeq(s, 1, lm), full) # 0
     THEN MakeDate(NumberOf(SubSeq(s, pd, pd + ld - 1)), MonthOf(SubSeq(s, 1, lm), full),
                   NumberOf(SubSeq(s, py, Len(s))))
     ELSE NoDate

\* strptime(s, "%Y-%m-%d")
ParseYMD(s) ==
  LET pm == 6
      lm == NumLen(s, pm)
      pd == pm + lm + 1
      ld == NumLen(s, pd)
  IN IF /\ Len(s) >= 8
        /\ \A k \in 1..4 : IsDigit(s[k])
        /\ s[5] = "-" /\ lm >= 1 /\ pd <= Len(s) /\ s[pm + lm] = "-"
        /\ ld >= 1 /\ pd + ld - 1 = Len(s)
     THEN MakeDate(NumberOf(SubSeq(s, pd, Len(s))), NumberOf(SubSeq(s, pm, pm + lm - 1)),
                   NumberOf(SubSeq(s, 1, 4)))
     ELSE NoDate

\* the results of datetime.strptime(s, f) for f in fmts, in the order of fmts
Strptimes(s) ==
  <<ParseDMY(s, "/", 4), ParseDMY(s, "-", 4), ParseDMY(s, "/", 2), ParseDMY(s, "-", 2),
    ParseDMonY(s, FALSE), ParseDMonY(s, TRUE),
    ParseMonDY(s, FALSE), ParseMonDY(s, TRUE),
    ParseYMD(s)>>

\* the end (exclusive) of the match of the k-th date pattern at position
\* i, 0 when it does not match there
DatePatternAt(s, i, k) ==
  LET n1 == RunFwd(s, i, DigitSet)
      a1 == RunFwd(s, i, AlphaSet)
      seps == {"/", "-"}
      \* \b(\d{1,2}[/-]\d{1,2}[/-]\d{2,4})\b
      numeric ==
        LET p2 == i + n1 + 1
            n2 == RunFwd(s, p2, DigitSet)
            p3 == p2 + n2 + 1
            n3 == RunFwd(s, p3, DigitSet)
        IN IF /\ n1 \in 1..2 /\ i + n1 <= Len(s) /\ s[i + n1] \in seps
              /\ n2 \in 1..2 /\ p2 + n2 <= Len(s) /\ s[p2 + n2] \in seps
              /\ n3 \in 2..4 /\ WordBoundary(s, p3 + n3)
           THEN p3 + n3 ELSE 0
      \* \b(\d{1,2}\s+[A-Za-z]{3,9}\s+\d{4})\b
      dayMonth ==
        LET g1 == RunFwd(s, i + n1, SpaceSet)
            pm == i + n1 + g1
            lm == RunFwd(s, pm, AlphaSet)
            g2 == RunFwd(s, pm + lm, SpaceSet)
            py == pm + lm + g2
        IN IF /\ n1 \in 1..2 /\ g1 >= 1 /\ lm \in 3..9 /\ g2 >= 1
              /\ RunFwd(s, py, DigitSet) = 4 /\ WordBoundary(s, py + 4)
           THEN py + 4 ELSE 0
      \* \b([A-Za-z]{3,9}\s+\d{1,2},\s*\d{4})\b
      monthDay ==
        LET g1 == RunFwd(s, i + a1, SpaceSet)
            pd == i + a1 + g1
            ld == RunFwd(s, pd, DigitSet)
            g2 == RunFwd(s, pd + ld + 1, SpaceSet)
            py == pd + ld + 1 + g2
        IN IF /\ a1 \in 3..9 /\ g1 >= 1 /\ ld \in 1..2
              /\ pd + ld <= Len(s) /\ s[pd + ld] = ","
              /\ RunFwd(s, py, DigitSet) = 4 /\ WordBoundary(s, py + 4)
           THEN py + 4 ELSE 0
      \* \b(\d{4}-\d{2}-\d{2})\b
      iso ==
        LET n2 == RunFwd(s, i + 5, DigitSet)
            n3 == RunFwd(s, i + 8, DigitSet)
        IN IF /\ n1 = 4 /\ HasAt(s, i + 4, <<"-">>) /\ n2 = 2
              /\ HasAt(s, i + 7, <<"-">>) /\ n3 = 2 /\ WordBoundary(s, i + 10)
           THEN i + 10 ELSE 0
  IN IF ~WordBoundary(s, i) THEN 0
     ELSE IF k = 1 THEN numeric
     ELSE IF k = 2 THEN dayMonth
     ELSE IF k = 3 THEN monthDay
     ELSE iso

\* group(1) of the leftmost match, stripped, where ends[i] is the end of
\* the match that starts at position i (0 when there is none); empty when
\* nothing matches
LeftmostDate(s, ends) ==
  LET hits == {i \in DOMAIN ends : ends[i] # 0}
  IN IF hits = {} THEN << >>
     ELSE Strip(SubSeq(s, MinOf(hits), ends[MinOf(hits)] - 1))

\* re.search of the k-th pattern
DateSearch(s, k) ==
  LeftmostDate(s, [i \in 1..Len(s) |-> DatePatternAt(s, i, k)])

\* the first of the texts found by the patterns, in the patterns' order
FirstFound(texts) ==
  LET found == {k \in DOMAIN texts : texts[k] # << >>}
  IN IF found = {} THEN << >> ELSE texts[MinOf(found)]

\* the loop of lines 258-263: the text of the first pattern that matches
DateShaped(s) == FirstFound([k \in 1..4 |-> DateSearch(s, k)])

\* strftime("%d/%m/%Y")
FormatDate(dt) == TwoDigits(dt.d) \o <<"/">> \o TwoDigits(dt.m) \o <<"/">> \o DigitsOf(dt.y)

\* the loop of lines 272-276 and the return of line 277: the first format
\* that parsed the text, formatted; empty when none did
FirstParsed(parsed) ==
  LET good == {k \in DOMAIN parsed : parsed[k].ok}
  IN IF good # {} THEN FormatDate(parsed[MinOf(good)]) ELSE << >>

\* lines 264-277 for the text found by the patterns
ParseRaw(rawDate) ==
  IF rawDate = << >> THEN << >> ELSE FirstParsed(Strptimes(rawDate))

try_parse_date(text_fragment) == ParseRaw(DateShaped(text_fragment))

----------------------------------------------------------------------------
(* normalize_common_fields                                                 *)

\* s.splitlines()[0] of a non-empty s
FirstLine(s) ==
  LET seps == {i \in 1..Len(s) : s[i] \in LineSeps}
  IN IF seps = {} THEN s ELSE Slice(s, 1, MinOf(seps) - 1)

\* the characters of [\d,\.] and of [A-Za-z/%]
QuantityNumberSet == DigitSet \cup {",", "."}
QuantityUnitSet == AlphaSet \cup {"/", "%"}

\* re.search(r"([\d,\.]+)\s*([A-Za-z/%]+)?", q_line).group(0), empty when
\* the pattern does not match: the leftmost number, the whitespace after
\* it and the unit, if one follows
QuantityMatch(q_line) ==
  LET hits == {i \in 1..Len(q_line) : q_line[i] \in QuantityNumberSet}
      i == MinOf(hits)
      n == RunFwd(q_line, i, QuantityNumberSet)
      g == RunFwd(q_line, i + n, SpaceSet)
      u == RunFwd(q_line, i + n + g, QuantityUnitSet)
  IN IF hits = {} THEN << >> ELSE SubSeq(q_line, i, i + n + g + u - 1)

\* lines 286-291
NormalizeQuantity(q) ==
  IF q = << >> THEN q
  ELSE LET q_line == FirstLine(q)
           m == QuantityMatch(q_line)
       IN Strip(IF m # << >> THEN Strip(m) ELSE q_line)

\* lines 293-296
NormalizePrice(p) == IF p = << >> THEN p ELSE Strip(FirstLine(p))

\* re.sub(r"\n{3,}", "\n\n", v)
CollapseBlankLines(s) ==
  LET nl == {"\n"}
      piece(i) ==
        IF s[i] # "\n" THEN <<s[i]>>
        ELSE LET a == i - RunBack(s, i - 1, nl)
                 b == i + RunFwd(s, i + 1, nl)
             IN IF b - a + 1 < 3 \/ i <= a + 1 THEN <<"\n">> ELSE << >>
  IN Flatten([i \in 1..Len(s) |-> piece(i)], 1, Len(s))

\* lines 301-303
CollapseWhitespace(v) == Strip(CollapseBlankLines(CollapseBlanks(Strip(v))))

normalize_common_fields(f) ==
  [k \in DOMAIN f |->
     CollapseWhitespace(IF k = "Quantity" THEN NormalizeQuantity(f[k])
                        ELSE IF k = "Price" THEN NormalizePrice(f[k])
                        ELSE f[k])]

----------------------------------------------------------------------------
(* extract_fields                                                          *)

\* the number of lines the date is looked for in
HeadLines == 120

\* "\n".join(text.splitlines()[:120])
HeadOf(s) ==
  LET seps == {i \in 1..Len(s) : s[i] \in LineSeps /\ ~IsCrLfTail(s, i)}
      whole == Cardinality(seps) < HeadLines
      cut == IF whole THEN Len(s)
             ELSE (CHOOSE i \in seps : Cardinality({j \in seps : j <= i}) = HeadLines) - 1
      h == Slice(s, 1, cut)
      \* a boundary that ends the text opens no line; one that ends the
      \* 119th of the 120 lines kept is followed by the empty 120th
      piece(i) ==
        IF h[i] \in LineSeps
        THEN (IF IsCrLfTail(h, i) \/ (whole /\ IsFinalSep(h, i)) THEN << >> ELSE <<"\n">>)
        ELSE <<h[i]>>
  IN Flatten([i \in 1..Len(h) |-> piece(i)], 1, Len(h))

\* the keys of the dict of lines 330-349 that are captured by label
LabelledFields ==
  <<"Commodity", "Quality", "Quantity", "Price", "Delivery", "Payment", "Insurance",
    "Freight", "Storage", "Weights", "Special Conditions", "Brokerage", "Rules">>

PartyFields == {"Buyer", "Buyer ABN", "Seller", "Seller ABN"}

FieldKeys == PartyFields \cup {"Date"} \cup {LabelledFields[i] : i \in DOMAIN LabelledFields}

\* lines 316-320
PartyField(ps, k) ==
  IF k = "Buyer" THEN (IF Len(ps) > 0 THEN ps[1][1] ELSE << >>)
  ELSE IF k = "Buyer ABN" THEN (IF Len(ps) > 0 THEN ps[1][2] ELSE << >>)
  ELSE IF k = "Seller" THEN (IF Len(ps) > 1 THEN ps[2][1] ELSE << >>)
  ELSE (IF Len(ps) > 1 THEN ps[2][2] ELSE << >>)

\* a dict that holds only the fields that found a value
RawFieldsFoundOnly(s, ps, date_norm) ==
  LET all == [k \in FieldKeys |->
                IF k \in PartyFields THEN PartyField(ps, k)
                ELSE IF k = "Date" THEN date_norm
                ELSE capture_field(s, k)]
  IN [k \in {f \in FieldKeys : all[f] # << >>} |-> all[k]]

\* the dict of lines 330-349
RawFields(s, ps, date_norm) ==
  [k \in FieldKeys |->
     IF k \in PartyFields THEN PartyField(ps, k)
     ELSE IF k = "Date" THEN date_norm
     ELSE capture_field(s, k)]

extract_fields(s) ==
  normalize_common_fields(RawFields(s, extract_parties(s), try_parse_date(HeadOf(s))))

----------------------------------------------------------------------------
(* The documents the pipeline is run on                                    *)

\* the longest text of NormAlphabet
MaxLen == 3

\* the number of lines of filler put before the parties
MaxPads == 2

\* the number of party blocks in the body of a document
MaxBlocks == 3

\* the number of labelled lines in a document of fields
MaxLines == 2

\* the length of a line of filler, its line break included
PadLen == 150

NormAlphabet == {"a", " ", "\t", "\n", "\r", "\f", "*", NBSP, FWCOLON, ENDASH}

\* every text of at most n characters of NormAlphabet
RECURSIVE TextsUpTo(_)
TextsUpTo(n) ==
  IF n = 0 THEN {<< >>}
  ELSE LET shorter == TextsUpTo(n - 1)
       IN shorter \cup {Append(t, c) : t \in {u \in shorter : Len(u) = n - 1}, c \in NormAlphabet}

ShortTexts == TextsUpTo(MaxLen)

\* a line of lower-case prose
PadLine ==
  [i \in 1..PadLen |-> IF i = PadLen THEN "\n" ELSE IF i % 6 = 0 THEN " " ELSE "x"]

RECURSIVE Pads(_)
Pads(n) == IF n = 0 THEN << >> ELSE PadLine \o Pads(n - 1)

\* the letterhead of the issuing broker
Letterhead == Chars("GRAINLINK BROKERS\nABN: 55 666 777 888\n")

\* the blocks of a transacting party: a company name in capitals above
\* its identifier (three parties), a name of one word, and a labelled name
\* in mixed case above a postal address
PartyBlocks ==
  {Chars("ACME GRAIN PTY LTD\nABN: 12 345 678 901\n"),
   Chars("BETA FOODS LTD\nABN:98765432100\n"),
   Chars("GAMMA TRUST CO\nabn : 11 222 333 444\n"),
   Chars("DELTA\nABN: 12 345 678 901\n"),
   Chars("Seller: Cargill Australia Ltd\nPO BOX 12 SYDNEY NSW 2000\nABN: 98 765 432 100\n")}

\* every concatenation of at most n elements of S
RECURSIVE SeqsOf(_, _)
SeqsOf(S, n) ==
  IF n = 0 THEN {<< >>}
  ELSE LET shorter == SeqsOf(S, n - 1)
       IN shorter \cup {t \o b : t \in shorter, b \in S}

\* Scenario 1 of the specification
Scenario1 ==
  Chars("Buyer: Allied Pinnacle Pty Ltd\nABN: 12 345 678 901\n")
    \o Chars("Seller: Cargill Australia Ltd\nABN: 98 765 432 100\n")
    \o Chars("Commodity: Wheat 25/26\nPrice: $340.00/MT")

\* documents of letterhead, filler (none, or past the minimum offset) and
\* party blocks
PartyDocs ==
  {h \o Pads(p) \o b :
     h \in {<< >>, Letterhead}, p \in {0, MaxPads}, b \in SeqsOf(PartyBlocks, MaxBlocks)}
    \cup {Pads(p) \o Scenario1 : p \in 0..MaxPads}

\* the lines of a document of fields
FieldLines ==
  {Chars("Commodity: Wheat 25/26\n"),
   Chars("Commodity:\n"),
   Chars("Price: $340.00/MT\n"),
   Chars("Contract Price : A$ 512.50 per MT\ndelivered\n"),
   Chars("Quantity: 3,000.00MT (MIN/MAX) per shipment\n"),
   Chars("Qty: 500 mt\n\n\n\n+/- 5%\n"),
   Chars("Weights & Measures: final at destination\n"),
   Chars("Notes:"),
   Chars("Dated 32/13/2025\n"),
   Chars("1 December 2025\n"),
   Chars("Dec 1,2025\n"),
   Chars("2025-12-01 and 29/02/24\n")}

\* more lines than the date is looked for in
ManyLines == Flatten([i \in 1..HeadLines |-> <<"x", "\n">>], 1, HeadLines)

\* documents of labelled lines, and a labelled line below the head
FieldDocs ==
  SeqsOf(FieldLines, MaxLines) \cup {ManyLines \o b : b \in FieldLines}

Docs == PartyDocs \cup FieldDocs

----------------------------------------------------------------------------
(* The pipeline: extract_text_from_pdf, then the steps of extract_fields   *)

Blank ==
  /\ text = << >>
  /\ parties = << >>
  /\ date = << >>
  /\ captured = << >>
  /\ fields = << >>
  /\ pc = "raw"

Init == raw \in Docs /\ Blank

InitShort == raw \in ShortTexts /\ Blank

\* lines 47-56
ExtractText ==
  /\ pc = "raw"
  /\ text' = NormalizeText(raw)
  /\ pc' = "text"
  /\ UNCHANGED <<raw, parties, date, captured, fields>>

\* line 316
ExtractParties ==
  /\ pc = "text"
  /\ parties' = extract_parties(text)
  /\ pc' = "parties"
  /\ UNCHANGED <<raw, text, date, captured, fields>>

\* lines 326-327
ParseDate ==
  /\ pc = "parties"
  /\ date' = try_parse_date(HeadOf(text))
  /\ pc' = "date"
  /\ UNCHANGED <<raw, text, parties, captured, fields>>

\* lines 330-349
CaptureFields ==
  /\ pc = "date"
  /\ captured' = RawFields(text, parties, date)
  /\ pc' = "captured"
  /\ UNCHANGED <<raw, text, parties, date, fields>>

\* line 351
NormalizeFields ==
  /\ pc = "captured"
  /\ fields' = normalize_common_fields(captured)
  /\ pc' = "done"
  /\ UNCHANGED <<raw, text, parties, date, captured>>

Next == ExtractText \/ ExtractParties \/ ParseDate \/ CaptureFields \/ NormalizeFields

Spec == Init /\ [][Next]_vars

\* the pipeline on every short text of NormAlphabet
SpecShort == InitShort /\ [][Next]_vars

----------------------------------------------------------------------------
(* Properties                                                              *)

\* the party resolver has run
PartiesDone == pc \in {"parties", "date", "captured", "done"}

\* the occurrences of the identifier pattern in the text
Occurrences ==
  LET ms == abn_iter(text)
  IN {ms[i] : i \in DOMAIN ms}

\* the occurrences at or after the minimum offset
BodyOccurrences == {m \in Occurrences : m.start - 1 >= MinOffset}

\* the occurrence m has a name of at least two tokens
Resolved(m) ==
  LET name == NameOf(text, m)
  IN name # << >> /\ TokenCount(name) >= 2

\* a value is a string: a sequence of characters
IsText(v) == DOMAIN v = 1..Len(v)

AllDigits(v) == \A i \in DOMAIN v : IsDigit(v[i])

\* the field k found nothing in the text
Unmatched(k) ==
  IF k \in {"Buyer", "Buyer ABN"} THEN Len(parties) = 0
  ELSE IF k \in {"Seller", "Seller ABN"} THEN Len(parties) <= 1
  ELSE IF k = "Date" THEN DateShaped(HeadOf(text)) = << >>
  ELSE ~FieldMatch(text, k).found

\* C1 as stated: the field map has exactly 17 keys, every value is a
\* string and every field that was not matched is the empty string.
C1_SeventeenKeys ==
  pc = "done" =>
    /\ Cardinality(DOMAIN fields) = 17
    /\ \A k \in DOMAIN fields : IsText(fields[k]) /\ (Unmatched(k) => fields[k] = << >>)

\* C1 (amended): for every input text the field map has exactly the 18
\* keys Buyer, Buyer ABN, Seller, Seller ABN, Date and the 13 labelled
\* fields; every value is a string and every field that was not matched is
\* the empty string.
C1_FieldMapComplete ==
  pc = "done" =>
    /\ DOMAIN fields =
         {"Buyer", "Buyer ABN", "Seller", "Seller ABN", "Date", "Commodity", "Quality",
          "Quantity", "Price", "Delivery", "Payment", "Insurance", "Freight", "Storage",
          "Weights", "Special Conditions", "Brokerage", "Rules"}
    /\ Cardinality(DOMAIN fields) = 18
    /\ \A k \in DOMAIN fields : IsText(fields[k]) /\ (Unmatched(k) => fields[k] = << >>)

\* a field map with a captured field, an unmatched field and no party
C1_Witness ==
  /\ pc = "done"
  /\ fields["Commodity"] # << >>
  /\ Unmatched("Rules") /\ fields["Rules"] = << >>
  /\ Unmatched("Buyer") /\ fields["Buyer"] = << >>

\* C2: every non-empty party identifier that extract_parties returns, and
\* every non-empty Buyer ABN and Seller ABN of the field map, has exactly
\* 11 characters, all of them decimal digits.
C2_IdentifiersElevenDigits ==
  /\ PartiesDone =>
       \A i \in DOMAIN parties :
         parties[i][2] # << >> => Len(parties[i][2]) = 11 /\ AllDigits(parties[i][2])
  /\ pc = "done" =>
       \A k \in {"Buyer ABN", "Seller ABN"} :
         fields[k] # << >> => Len(fields[k]) = 11 /\ AllDigits(fields[k])

\* a named buyer whose identifier the document writes in groups of digits,
\* and a second party
C2_Witness ==
  /\ pc = "done"
  /\ Len(parties) = 2
  /\ parties[1][1] # << >>
  /\ \E m \in BodyOccurrences :
       /\ AbnOf(text, m) = fields["Buyer ABN"]
       /\ m.gend - m.gstart > 11
  /\ fields["Seller ABN"] # << >>

\* the deduplicated candidates of the text, as a set
CandidateSet ==
  LET ps == Dedup(Candidates(text, abn_iter(text)), {})
  IN {ps[i] : i \in DOMAIN ps}

\* C5: extract_parties returns 0, 1 or 2 pairs; with two or more
\* deduplicated candidates the first pair is the candidate of the smallest
\* offset and the second the candidate of the largest; with exactly one
\* candidate the list has that one pair, and the seller fields are empty.
\* (The list is looked at when extract_parties returns it, the fields when
\* the field map is complete; the list does not change in between.)
C5_BuyerFirstSellerLast ==
  /\ pc = "parties" =>
       LET cs == CandidateSet
       IN /\ Len(parties) \in 0..2
          /\ Cardinality(cs) >= 2 =>
               LET lo == CHOOSE c \in cs : \A o \in cs : c.idx <= o.idx
                   hi == CHOOSE c \in cs : \A o \in cs : c.idx >= o.idx
               IN parties = <<Pair(lo.name, lo.abn), Pair(hi.name, hi.abn)>>
          /\ Cardinality(cs) = 1 => \E c \in cs : parties = <<Pair(c.name, c.abn)>>
  /\ (pc = "done" /\ Len(parties) = 1) =>
       /\ fields["Buyer"] # << >> /\ fields["Buyer ABN"] # << >>
       /\ fields["Seller"] = << >> /\ fields["Seller ABN"] = << >>

\* three candidates of different identifiers: the one in between is dropped
C5_Witness ==
  /\ pc = "parties"
  /\ Cardinality(CandidateSet) >= 3
  /\ Len(parties) = 2

C10_NoLetterheadIdentifier ==
  PartiesDone =>
    \A i \in DOMAIN parties :
      \E m \in BodyOccurrences : AbnOf(text, m) = parties[i][2]

\* C4: a document with a labelled buyer block and a labelled seller block,
\* each a name above its ABN line, yields the names and the identifiers of
\* the blocks, wherever the blocks stand (Scenario 1, after any filler).
C4_LabelledParties ==
  (pc = "done" /\ \E p \in 0..MaxPads : raw = Pads(p) \o Scenario1) =>
    /\ fields["Buyer"] = Chars("Allied Pinnacle Pty Ltd")
    /\ fields["Buyer ABN"] = Chars("12345678901")
    /\ fields["Seller"] = Chars("Cargill Australia Ltd")
    /\ fields["Seller ABN"] = Chars("98765432100")

\* C7: no value capture_field returns holds a recognized label followed by
\* a colon.
C7_ValueStopsAtNextLabel ==
  pc \in {"captured", "done"} =>
    \A k \in DOMAIN FIELD_LABELS :
      \A e \in 1..Len(captured[k]) : ~NextLabelAt(captured[k], e)

\* C8: when the head of the document holds a date-shaped token that no
\* format parses, the Date is that token; the Date is empty only when the
\* head holds no date-shaped token.
C8_UnparsedDateKeepsRawText ==
  pc \in {"date", "captured", "done"} =>
    LET token == DateShaped(HeadOf(text))
        parsed == \E k \in DOMAIN Strptimes(token) : Strptimes(token)[k].ok
    IN /\ (token # << >> /\ ~parsed) => date = token
       /\ date = << >> => token = << >>

\* s holds the literal lit
Contains(s, lit) == \E i \in 1..Len(s) : HasAt(s, i, lit)

\* C9: a Quantity whose first line holds a number with an adjoining unit
\* is normalized to the number without thousands separators, the unit in
\* lower case, and " (MIN/MAX)" exactly when the raw value holds MIN/MAX;
\* "3,000.00MT (MIN/MAX) per shipment" becomes "3000.00mt (MIN/MAX)".
C9_QuantityCanonicalForm ==
  pc = "done" =>
    LET q == captured["Quantity"]
        v == fields["Quantity"]
        m == QuantityMatch(FirstLine(q))
    IN /\ (q # << >> /\ m # << >> /\ m[Len(m)] \in AlphaSet) =>
            /\ ~Contains(v, <<",">>)
            /\ Contains(q, Chars("MIN/MAX")) <=> Contains(v, Chars(" (MIN/MAX)"))
       /\ q = Chars("3,000.00MT (MIN/MAX) per shipment") => v = Chars("3000.00mt (MIN/MAX)")

\* C3: normalizing a normalized text changes nothing.
C3_NormalizeIdempotent ==
  pc # "raw" => NormalizeText(text) = text

====
